---- MODULE Spec2Model ----
(***************************************************************************)
(* A model of the match-3 board engine of src/unnamed/part_000 (class      *)
(* Board and class Tile).  The board is GRID_HEIGHT rows of GRID_WIDTH     *)
(* cells, grid[y][x]; a cell holds a Tile or None.  The player's clicks    *)
(* are handled by Board.handle_click; a matching swap starts the cascade   *)
(* of Board.clear_matches, which calls itself once per cascade round.      *)
(*                                                                         *)
(* One action models one handler.  The cascade is the exception: every     *)
(* activation of clear_matches takes two steps (lines 172-183: scan,       *)
(* clear, score; lines 186-190: gravity with its random refill, rescan),   *)
(* because the number of rounds is not bounded by the code.                *)
(*                                                                         *)
(* Scaling.  The source plays on an 8 x 8 grid; the model keeps the code   *)
(* of every operation and runs it on GRID_WIDTH x GRID_HEIGHT = 3 x 3.     *)
(* EMOJIS, the palette random.choice draws from, is a list of one entry    *)
(* in the source text (line 36) and "five different colored emogis" in     *)
(* its header (line 8): the model takes the palette as a configuration     *)
(* of 1..NumEmojis entries fixed before construction.  Python integers     *)
(* are unbounded; the model's score saturates at MaxScore, and what is     *)
(* stated about the score is stated below that bound.  The depth of the    *)
(* recursion of clear_matches is counted up to MaxDepth.                   *)
(*                                                                         *)
(* Specifications.  Spec is the board from construction on, clicked by     *)
(* the player; FairSpec adds the progress of the program and of its        *)
(* random refill.  FnSpec calls apply_gravity and find_matches on any      *)
(* grid, CallSpec calls get_tile and swap_tiles on a constructed board.    *)
(* RenderSpec follows the presentation fields of the tiles through a       *)
(* committed swap and the frames after it.  AiSpec is the main loop of     *)
(* src/ai_version.py on a GRID_SIZE x GRID_SIZE = 3 x 3 board, and         *)
(* BothSpec runs that loop beside Board.swap_tiles on the same board.      *)
(***************************************************************************)
EXTENDS Integers, Sequences, FiniteSets, TLC

\* ------------------------------------------------------------- constants

GRID_WIDTH == 3

GRID_HEIGHT == 3

TILE_SIZE == 60

PADDING == 10

ANIMATION_SPEED == 10

\* Points per cleared cell (the factor of line 183).
POINTS == 10

\* src/ai_version.py: the side of its square grid, the side of a tile in
\* pixels (its TILE_SIZE) and the gap between tiles.
GRID_SIZE == 3

AI_TILE_SIZE == 80

MARGIN == 5

\* The score of src/ai_version.py saturates here.
MaxAiScore == 9

\* Largest palette the model configures.
NumEmojis == 2

\* The score saturates here.
MaxScore == 40

\* The count of nested activations of clear_matches saturates here.
MaxDepth == 2

Cols == 0 .. (GRID_WIDTH - 1)

Rows == 0 .. (GRID_HEIGHT - 1)

Coords == Cols \X Rows

\* The palettes EMOJIS may be: 1..k stands for a list of k distinct emojis.
Palettes == {1 .. k : k \in 1 .. NumEmojis}

\* ------------------------------------------------------------------ Tile

\* An empty cell (Python's None in the grid).  It has the shape of a tile so
\* that cells compare; no palette entry is 0.
None == [emoji |-> 0, x |-> -1, y |-> -1]

\* Tile.__init__: the emoji and the grid position.
Tile(emoji, x, y) == [emoji |-> emoji, x |-> x, y |-> y]

\* Tile.__eq__ on two tiles: equal emojis, whatever the positions.
TileEq(a, b) == a.emoji = b.emoji

\* No selection (Python's None in Board.selected).
NoSelection == <<>>

\* ----------------------------------------------------------------- Board

VARIABLES
    EMOJIS,     \* the palette: a set 1..k
    grid,       \* grid[y][x]: a Tile or None
    selected,   \* NoSelection or <<x, y>>
    score,
    pc,         \* where the program is: "__init__", "init_while",
                \* "clear_matches", "apply_gravity", "init_gravity", "idle"
                \* (waiting for a click); "call" and "called" around a direct
                \* call (FnSpec, CallSpec); "ai_version" when the other
                \* program runs (AiSpec)
    op,         \* the operation running or last completed:
                \* "__init__", "handle_click" or "swap_tiles"
    depth,      \* activations of clear_matches on the call stack (saturating)
    ret,        \* what swap_tiles returned in the last handle_click: "True",
                \* "False", or "None" when it was not called or has not returned
    due,        \* history: the score when the last handle_click began, plus
                \* POINTS for every cell in a run of every round since
    call,       \* history of a direct call of one Board method (FnSpec,
                \* CallSpec): its name, the grid or the coordinates it was
                \* given, what it returned, and whether it was a repeated call
    held,       \* history: whether a selection was held when the last
                \* handle_click began
    render,     \* the presentation fields of the tile of every cell
                \* (render_x, render_y, falling, fall_speed), whether they
                \* are followed at all, and the parity of the frames drawn
    ai_version  \* the globals of src/ai_version.py: board, selected, score

vars == <<EMOJIS, grid, selected, score, pc, op, depth, ret, due, call, held, render, ai_version>>

InBounds(x, y) == 0 <= x /\ x < GRID_WIDTH /\ 0 <= y /\ y < GRID_HEIGHT

\* Mutant of get_tile: no tile is ever returned.
get_tile_none(g, x, y) == None

get_tile(g, x, y) == IF InBounds(x, y) THEN g[y][x] ELSE None

\* Mutant of IsRun: two equal tiles side by side make a run.
IsRunPair(t1, t2, t3) == t1 # None /\ t2 # None /\ TileEq(t1, t2)

\* Mutant of IsRun: the tiles are compared without the test that they are
\* present.
IsRunUnchecked(t1, t2, t3) == TileEq(t1, t2) /\ TileEq(t2, t3)

\* The three tiles of a triple match: all present, and equal as
\* tile1 == tile2 == tile3 chains.
IsRun(t1, t2, t3) ==
    /\ t1 # None
    /\ t2 # None
    /\ t3 # None
    /\ TileEq(t1, t2)
    /\ TileEq(t2, t3)

HorizontalMatches(g) ==
    UNION {IF IsRun(get_tile(g, x, y), get_tile(g, x + 1, y), get_tile(g, x + 2, y))
           THEN {<<x, y>>, <<x + 1, y>>, <<x + 2, y>>}
           ELSE {} : x \in 0 .. (GRID_WIDTH - 3), y \in Rows}

VerticalMatches(g) ==
    UNION {IF IsRun(get_tile(g, x, y), get_tile(g, x, y + 1), get_tile(g, x, y + 2))
           THEN {<<x, y>>, <<x, y + 1>>, <<x, y + 2>>}
           ELSE {} : x \in Cols, y \in 0 .. (GRID_HEIGHT - 3)}

find_matches(g) == HorizontalMatches(g) \cup VerticalMatches(g)

\* Lines 179-180: every matched cell becomes None.
ClearCells(g, matched) ==
    [y \in Rows |-> [x \in Cols |-> IF <<x, y>> \in matched THEN None ELSE g[y][x]]]

\* Mutants of AddScore: "score = ..." for "score += ...", and a round that
\* scores one cell whatever it cleared.
AddScoreAssign(s, n) ==
    IF n * POINTS > MaxScore THEN MaxScore ELSE n * POINTS

AddScoreFlat(s, n) ==
    IF s + POINTS > MaxScore THEN MaxScore ELSE s + POINTS

\* Line 183, saturating at MaxScore.
AddScore(s, n) ==
    IF s + n * POINTS > MaxScore THEN MaxScore ELSE s + n * POINTS

\* Mutant of ColumnTiles: the column is collected from the top row down.
ColumnTilesDownward(g, x) ==
    SelectSeq([i \in 1 .. GRID_HEIGHT |-> g[i - 1][x]], LAMBDA t : t # None)

\* Lines 196-199: the tiles of column x, from the bottom row up.
ColumnTiles(g, x) ==
    SelectSeq([i \in 1 .. GRID_HEIGHT |-> g[GRID_HEIGHT - i][x]],
              LAMBDA t : t # None)

\* The cells line 214-218 fill with new tiles: the top rows of each column,
\* as many as the column has empty cells.
NewCells(g) ==
    {c \in Coords : c[2] < GRID_HEIGHT - Len(ColumnTiles(g, c[1]))}

\* Mutant of FallenTile: the tile takes its index in the column as its y.
FallenTileIndex(tiles, y) == [tiles[GRID_HEIGHT - y] EXCEPT !.y = GRID_HEIGHT - 1 - y]

\* Lines 205-209: the i-th tile from the bottom lands in row
\* GRID_HEIGHT - 1 - i and takes that row as its y.
FallenTile(tiles, y) == [tiles[GRID_HEIGHT - y] EXCEPT !.y = y]

\* Mutant of apply_gravity: every new tile gets the same emoji.
apply_gravity_same(g, rnd) ==
    [y \in Rows |-> [x \in Cols |->
        LET tiles == ColumnTiles(g, x)
        IN  IF y >= GRID_HEIGHT - Len(tiles)
            THEN FallenTile(tiles, y)
            ELSE Tile(1, x, y)]]

\* apply_gravity, with rnd[<<x, y>>] the emoji random.choice returns for the
\* new tile of cell (x, y).
apply_gravity(g, rnd) ==
    [y \in Rows |-> [x \in Cols |->
        LET tiles == ColumnTiles(g, x)
        IN  IF y >= GRID_HEIGHT - Len(tiles)
            THEN FallenTile(tiles, y)
            ELSE Tile(rnd[<<x, y>>], x, y)]]

\* Lines 127-129: exchange the two cells and give each tile its new position.
SwapCells(g, x1, y1, x2, y2) ==
    LET tile1 == g[y1][x1]
        tile2 == g[y2][x2]
    IN  [y \in Rows |-> [x \in Cols |->
            IF <<x, y>> = <<x2, y2>> THEN [tile1 EXCEPT !.x = x2, !.y = y2]
            ELSE IF <<x, y>> = <<x1, y1>> THEN [tile2 EXCEPT !.x = x1, !.y = y1]
            ELSE g[y][x]]]

\* Mutant of SwapBack: the cells are exchanged again, the positions stored
\* in the two tiles are not restored.
SwapBackStale(g, x1, y1, x2, y2) ==
    [y \in Rows |-> [x \in Cols |->
        IF <<x, y>> = <<x1, y1>> THEN g[y2][x2]
        ELSE IF <<x, y>> = <<x2, y2>> THEN g[y1][x1]
        ELSE g[y][x]]]

\* Mutant of SwapBack: the failed swap is left in place.
SwapBackMissing(g, x1, y1, x2, y2) == g

\* Lines 137-139: exchange the two cells again and restore the positions.
SwapBack(g, x1, y1, x2, y2) ==
    LET tile2 == g[y1][x1]
        tile1 == g[y2][x2]
    IN  [y \in Rows |-> [x \in Cols |->
            IF <<x, y>> = <<x1, y1>> THEN [tile1 EXCEPT !.x = x1, !.y = y1]
            ELSE IF <<x, y>> = <<x2, y2>> THEN [tile2 EXCEPT !.x = x2, !.y = y2]
            ELSE g[y][x]]]

\* Line 241: the 4-adjacency test of handle_click.
Abs(n) == IF n < 0 THEN -n ELSE n

IsAdjacent(sx, sy, x, y) == Abs(sx - x) + Abs(sy - y) = 1

\* Lines 229-230: the cell of a pixel position.
CellOf(p) == (p - PADDING) \div TILE_SIZE

\* Pixel positions clicked: the pixel left of / above the board, the first
\* pixel of every column / row, and the first pixel past the board.
ClickXs == {PADDING - 1} \cup {PADDING + k * TILE_SIZE : k \in 0 .. GRID_WIDTH}

ClickYs == {PADDING - 1} \cup {PADDING + k * TILE_SIZE : k \in 0 .. GRID_HEIGHT}

\* ------------------------------------------------- what the claims speak of

\* The cells of g that lie in a horizontal or vertical triple of present,
\* equal tiles: stated cell by cell, not as the scan of find_matches.
Present(g, x, y) == InBounds(x, y) /\ g[y][x].emoji # 0

SameAt(g, x1, y1, x2, y2) ==
    Present(g, x1, y1) /\ Present(g, x2, y2) /\ g[y1][x1].emoji = g[y2][x2].emoji

TripleFrom(g, x, y, dx, dy) ==
    /\ SameAt(g, x, y, x + dx, y + dy)
    /\ SameAt(g, x, y, x + 2 * dx, y + 2 * dy)

RunCells(g) ==
    {c \in Coords :
        \E k \in 0 .. 2 :
            \/ TripleFrom(g, c[1] - k, c[2], 1, 0)
            \/ TripleFrom(g, c[1], c[2] - k, 0, 1)}

\* The cells 4-adjacent to cell c: one step left, right, up or down.
Neighbours(c) ==
    {<<c[1] - 1, c[2]>>, <<c[1] + 1, c[2]>>, <<c[1], c[2] - 1>>, <<c[1], c[2] + 1>>}

\* g with the contents of cells a and b exchanged.
Exchanged(g, a, b) ==
    [y \in Rows |-> [x \in Cols |->
        IF <<x, y>> = a THEN g[b[2]][b[1]]
        ELSE IF <<x, y>> = b THEN g[a[2]][a[1]]
        ELSE g[y][x]]]

\* The tiles of column x of g from the top row down.
ColumnTopDown(g, x) ==
    SelectSeq([i \in 1 .. GRID_HEIGHT |-> g[i - 1][x]], LAMBDA t : t.emoji # 0)

NoEmptyCell(g) == \A c \in Coords : g[c[2]][c[1]].emoji # 0

EmptyGrid == [y \in Rows |-> [x \in Cols |-> None]]

NoCall == [fn |-> "none", arg |-> EmptyGrid, at |-> <<>>, result |-> {}, again |-> FALSE]

\* ---------------------------------------------------------- presentation

\* The presentation fields of a tile made by Tile(emoji, x, y), lines 49-52.
RenderTile(x, y) == [render_x |-> x, render_y |-> y, falling |-> FALSE, fall_speed |-> 0]

\* No tile in the cell.
NoRender == [render_x |-> -1, render_y |-> -1, falling |-> FALSE, fall_speed |-> -1]

\* Tile.start_fall, lines 71-74.
start_fall(t) == [t EXCEPT !.falling = TRUE, !.fall_speed = ANIMATION_SPEED]

\* Tile.update, lines 62-69, of a tile whose grid row is y.
TileUpdate(t, y) ==
    IF t.falling
    THEN IF t.render_y + t.fall_speed >= y
         THEN [t EXCEPT !.render_y = y, !.falling = FALSE, !.fall_speed = 0]
         ELSE [t EXCEPT !.render_y = t.render_y + t.fall_speed]
    ELSE t

\* Lines 103-105: every cell holds a tile just made.
RenderFilled == [c \in Coords |-> RenderTile(c[1], c[2])]

\* Lines 127-129: the two tiles change cells; swap_tiles leaves their
\* presentation fields as they are.
RenderSwap(t, a, b) ==
    [c \in Coords |-> IF c = a THEN t[b] ELSE IF c = b THEN t[a] ELSE t[c]]

\* Lines 179-180: the matched tiles are gone.
RenderClear(t, matched) ==
    [c \in Coords |-> IF c \in matched THEN NoRender ELSE t[c]]

\* Lines 196-199: the rows of column x of g that hold a tile, bottom up.
ColumnRows(g, x) ==
    SelectSeq([i \in 1 .. GRID_HEIGHT |-> GRID_HEIGHT - i], LAMBDA y : g[y][x] # None)

\* apply_gravity on the presentation fields, lines 206-218: a tile that
\* lands below the row it is drawn in starts to fall (lines 210-211); a new
\* tile is drawn above the grid and falls (lines 215-217).
RenderGravity(g, t) ==
    [c \in Coords |->
        LET rows == ColumnRows(g, c[1])
        IN  IF c[2] >= GRID_HEIGHT - Len(rows)
            THEN LET tile == t[<<c[1], rows[GRID_HEIGHT - c[2]]>>]
                 IN  IF tile.render_y < c[2] THEN start_fall(tile) ELSE tile
            ELSE start_fall([RenderTile(c[1], c[2]) EXCEPT !.render_y = -1])]

\* The specifications of the game logic do not follow the presentation
\* fields: no line of the logic reads them but line 210, which decides
\* only whether a tile's animation starts.
Untracked == [tracked |-> FALSE, frame |-> 0, tile |-> [c \in Coords |-> NoRender]]

\* The presentation fields after a step that makes them t.
Shown(r, t) == IF r.tracked THEN [r EXCEPT !.tile = t] ELSE r

\* src/ai_version.py is not running.
NotRunning == [board |-> <<>>, selected |-> <<>>, score |-> 0]

\* ------------------------------------------------------ src/ai_version.py

\* The variables of Board and its history, which src/ai_version.py does
\* not touch.
board_vars == <<EMOJIS, grid, selected, score, pc, op, depth, ret, due, call, held, render>>

\* range(len(COLORS)): the palette has as many entries as EMOJIS at most.
COLORS == 0 .. (NumEmojis - 1)

AiRange == 0 .. (GRID_SIZE - 1)

\* The cells (y, x) of board.
AiCells == AiRange \X AiRange

\* An emptied cell of board (Python's None, line 80).
AiNone == -1

\* create_board, lines 34-35, of the draws rnd of random.randrange.
create_board(rnd) == [y \in AiRange |-> [x \in AiRange |-> rnd[<<y, x>>]]]

\* find_matches(board), lines 60-75: the cells (y, x) of the triples found.
ai_find_matches(board) ==
    UNION ({IF board[y][x] = board[y][x + 1] /\ board[y][x + 1] = board[y][x + 2]
            THEN {<<y, x>>, <<y, x + 1>>, <<y, x + 2>>}
            ELSE {} : y \in AiRange, x \in 0 .. (GRID_SIZE - 3)}
           \cup
           {IF board[y][x] = board[y + 1][x] /\ board[y + 1][x] = board[y + 2][x]
            THEN {<<y, x>>, <<y + 1, x>>, <<y + 2, x>>}
            ELSE {} : x \in AiRange, y \in 0 .. (GRID_SIZE - 3)})

\* Lines 79-80: the matched cells become None.
AiCleared(board, matches) ==
    [y \in AiRange |-> [x \in AiRange |->
        IF <<y, x>> \in matches THEN AiNone ELSE board[y][x]]]

\* Line 83: the colours left in column x, top to bottom.
AiColumn(board, x) ==
    SelectSeq([i \in 1 .. GRID_SIZE |-> board[i - 1][x]], LAMBDA c : c # AiNone)

\* The cells line 85 draws new colours for: the top of every column.
AiMissing(board) ==
    {c \in AiCells : c[1] < GRID_SIZE - Len(AiColumn(board, c[2]))}

\* remove_matches(board, matches), lines 78-87, with rnd[<<y, x>>] the
\* draw of random.randrange for the new cell (y, x).
remove_matches(board, matches, rnd) ==
    LET cleared == AiCleared(board, matches)
    IN  [y \in AiRange |-> [x \in AiRange |->
            LET column == AiColumn(cleared, x)
                missing == GRID_SIZE - Len(column)
            IN  IF y < missing THEN rnd[<<y, x>>] ELSE column[y - missing + 1]]]

\* Mutant of AiExchange: the board is left as it is.
AiExchangeNone(board, y1, x1, y2, x2) == board

\* Line 118: the contents of the two cells are exchanged.
AiExchange(board, y1, x1, y2, x2) ==
    [y \in AiRange |-> [x \in AiRange |->
        IF <<y, x>> = <<y1, x1>> THEN board[y2][x2]
        ELSE IF <<y, x>> = <<y2, x2>> THEN board[y1][x1]
        ELSE board[y][x]]]

\* Line 123, saturating at MaxAiScore.
AiAddScore(s, n) == IF s + n > MaxAiScore THEN MaxAiScore ELSE s + n

\* Lines 109-110: the cell of a mouse position.
AiCellOf(m) == m \div (AI_TILE_SIZE + MARGIN)

\* Mouse positions: the first pixel of every column / row, and of the
\* margin past the last, which belongs to no cell.
AiClicks == {k * (AI_TILE_SIZE + MARGIN) : k \in 0 .. GRID_SIZE}

\* Lines 107-119 on the globals of src/ai_version.py: one MOUSEBUTTONDOWN
\* event of the for loop of line 103.
MouseButtonDownEvent(mx, my) ==
    LET x == AiCellOf(mx)
        y == AiCellOf(my)
    IN  IF 0 <= x /\ x < GRID_SIZE /\ 0 <= y /\ y < GRID_SIZE
        THEN IF ai_version.selected = <<>>
             THEN ai_version' = [ai_version EXCEPT !.selected = <<y, x>>]
             ELSE ai_version' =
                     [ai_version EXCEPT
                        !.board = AiExchange(@, ai_version.selected[1],
                                             ai_version.selected[2], y, x),
                        !.selected = <<>>]
        ELSE UNCHANGED ai_version

\* The board of src/ai_version.py after create_board, line 94-96.
AiInit ==
    /\ ai_version \in {[board |-> create_board(rnd), selected |-> <<>>, score |-> 0] :
                          rnd \in [AiCells -> COLORS]}
    /\ EMOJIS = 1 .. NumEmojis
    /\ grid = EmptyGrid
    /\ selected = NoSelection
    /\ score = 0
    /\ pc = "ai_version"
    /\ op = "ai_version"
    /\ depth = 0
    /\ ret = "None"
    /\ due = 0
    /\ call = NoCall
    /\ held = FALSE
    /\ render = Untracked

\* An event of the for loop, lines 103-119.  (QUIT, lines 104-105, ends the
\* loop after the frame and is left out.)
MOUSEBUTTONDOWN(mx, my) ==
    /\ pc = "ai_version"
    /\ MouseButtonDownEvent(mx, my)
    /\ UNCHANGED board_vars

\* Lines 121-124: the end of one iteration of the main loop, after all the
\* events pending have been handled: one scan, and one removal with its
\* refill when the scan found a match.
Frame ==
    /\ \E matches \in {ai_find_matches(ai_version.board)} :
          IF matches # {}
          THEN \E rnd \in [AiMissing(AiCleared(ai_version.board, matches)) -> COLORS] :
                  ai_version' = [ai_version EXCEPT
                                   !.score = AiAddScore(@, Cardinality(matches)),
                                   !.board = remove_matches(@, matches, rnd)]
          ELSE UNCHANGED ai_version
    /\ UNCHANGED board_vars

AiFrame == pc = "ai_version" /\ Frame

AiNext ==
    \/ \E mx \in AiClicks, my \in AiClicks : MOUSEBUTTONDOWN(mx, my)
    \/ AiFrame

AiSpec == AiInit /\ [][AiNext]_vars

\* --------------------------------------------------------------- actions

\* Lines 103-105: the grid made of the draws rnd of random.choice.
Filled(rnd) == [y \in Rows |-> [x \in Cols |-> Tile(rnd[<<x, y>>], x, y)]]

\* Board.__init__ up to line 98, for each configured palette.
Init ==
    /\ EMOJIS \in Palettes
    /\ grid = [y \in Rows |-> [x \in Cols |-> None]]
    /\ selected = NoSelection
    /\ score = 0
    /\ pc = "__init__"
    /\ op = "__init__"
    /\ depth = 0
    /\ ret = "None"
    /\ due = 0
    /\ call = NoCall
    /\ held = FALSE
    /\ render = Untracked
    /\ ai_version = NotRunning

\* initialize_board, lines 103-105: a random tile in every cell.
InitFill ==
    /\ pc = "__init__"
    /\ grid' \in {Filled(rnd) : rnd \in [Coords -> EMOJIS]}
    /\ pc' = "init_while"
    /\ render' = Shown(render, RenderFilled)
    /\ UNCHANGED <<EMOJIS, selected, score, op, depth, ret, due, call, held, ai_version>>

\* initialize_board, line 108: the loop test; a match calls clear_matches.
InitWhile ==
    /\ pc = "init_while"
    /\ pc' = IF find_matches(grid) # {} THEN "clear_matches" ELSE "idle"
    /\ depth' = IF find_matches(grid) # {} THEN 1 ELSE 0
    /\ UNCHANGED <<EMOJIS, grid, selected, score, op, ret, due, call, held, render, ai_version>>

\* initialize_board, line 110: apply_gravity after clear_matches returned.
InitGravity ==
    /\ pc = "init_gravity"
    /\ grid' \in {apply_gravity(grid, rnd) : rnd \in [NewCells(grid) -> EMOJIS]}
    /\ pc' = "init_while"
    /\ render' = Shown(render, RenderGravity(grid, render.tile))
    /\ UNCHANGED <<EMOJIS, selected, score, op, depth, ret, due, call, held, ai_version>>

\* Mutant of Recurse: one round only, no rescan.
RecurseNever(g) == FALSE

\* Line 189: whether clear_matches calls itself on the refilled grid.
Recurse(g) == find_matches(g) # {}

\* Where the program is once the outermost clear_matches has returned: at
\* line 110 of initialize_board, or back in handle_click (swap_tiles
\* returned True, line 134), waiting for the next click, or back in the
\* direct caller of swap_tiles.
Returned(caller) ==
    IF caller = "__init__" THEN "init_gravity"
    ELSE IF caller = "swap_tiles" THEN "called"
    ELSE "idle"

\* Line 243: the selection after swap_tiles returned True.
SelectedAfterMatch(sel, clicked) == NoSelection

\* Mutant of SelectedAfterNoMatch: the old selection stays.
SelectedKept(sel, clicked) == sel

\* Line 245: the selection after swap_tiles returned False.
SelectedAfterNoMatch(sel, clicked) == clicked

\* Mutant of SelectedAfterReselect: the old selection stays.
SelectedReselectKept(sel, clicked) == sel

\* Line 247: the selection after a click that is not adjacent to it.
SelectedAfterReselect(sel, clicked) == clicked

\* Mutant of SelectedAfterOutside: a click outside leaves the selection.
SelectedOutsideKept(sel) == sel

\* Line 233: the selection after a click outside the grid.
SelectedAfterOutside(sel) == NoSelection

\* Line 190: one more activation of clear_matches on the stack.
Deeper(d) == IF d < MaxDepth THEN d + 1 ELSE MaxDepth

\* clear_matches, lines 172-183: the scan; without a match the call
\* returns (line 176); with one, the matched cells are emptied and scored.
\* matched is bound once per step.
clear_matches ==
    /\ pc = "clear_matches"
    /\ \E matched \in {find_matches(grid)} :
          IF matched = {}
          THEN /\ pc' = Returned(op)
               /\ depth' = 0
               /\ selected' = IF op = "handle_click"
                              THEN SelectedAfterMatch(selected, selected)
                              ELSE selected
               /\ ret' = IF op = "__init__" THEN ret ELSE "True"
               /\ UNCHANGED <<grid, score, due, render>>
          ELSE /\ grid' = ClearCells(grid, matched)
               /\ render' = Shown(render, RenderClear(render.tile, matched))
               /\ score' = AddScore(score, Cardinality(matched))
               /\ due' = LET d == due + POINTS * Cardinality(RunCells(grid))
                         IN  IF d > MaxScore THEN MaxScore ELSE d
               /\ pc' = "apply_gravity"
               /\ UNCHANGED <<selected, depth, ret>>
    /\ UNCHANGED <<EMOJIS, op, call, held, ai_version>>

\* clear_matches, lines 186-190: gravity with its random refill, the rescan,
\* and the call of clear_matches on a grid that has a run again.  When it
\* does not call itself, every activation returns; a return into
\* handle_click sets the selection of line 243.
clear_matches_gravity ==
    /\ pc = "apply_gravity"
    /\ render' = Shown(render, RenderGravity(grid, render.tile))
    /\ \E rnd \in [NewCells(grid) -> EMOJIS] :
          /\ grid' = apply_gravity(grid, rnd)
          /\ \E again \in {Recurse(grid')} :
                /\ pc' = IF again THEN "clear_matches" ELSE Returned(op)
                /\ depth' = IF again THEN Deeper(depth) ELSE 0
                /\ selected' = IF ~again /\ op = "handle_click"
                               THEN SelectedAfterMatch(selected, selected)
                               ELSE selected
                /\ ret' = IF ~again /\ op # "__init__" THEN "True" ELSE ret
    /\ UNCHANGED <<EMOJIS, score, op, due, call, held, ai_version>>

\* Board.swap_tiles(x1, y1, x2, y2), lines 118-140, up to its call of
\* clear_matches (line 133) or its return of False (lines 124, 140); caller
\* is the operation that called it.  The exchanged grid is bound once.
swap_tiles(caller, x1, y1, x2, y2) ==
    IF get_tile(grid, x1, y1) = None \/ get_tile(grid, x2, y2) = None
    THEN /\ ret' = "False"
         /\ pc' = Returned(caller)
         /\ UNCHANGED <<grid, depth, render>>
    ELSE \E swapped \in {SwapCells(grid, x1, y1, x2, y2)} :
         IF find_matches(swapped) # {}
         THEN /\ ret' = "None"
              /\ pc' = "clear_matches"
              /\ grid' = swapped
              /\ depth' = 1
              /\ render' = Shown(render, RenderSwap(render.tile, <<x1, y1>>, <<x2, y2>>))
         ELSE /\ ret' = "False"
              /\ pc' = Returned(caller)
              /\ grid' = SwapBack(swapped, x1, y1, x2, y2)
              /\ UNCHANGED <<depth, render>>

\* Board.handle_click(pos), lines 227-247, with its call of swap_tiles.
handle_click(px, py) ==
    /\ pc = "idle"
    /\ op' = "handle_click"
    /\ due' = score
    /\ held' = (selected # NoSelection)
    /\ LET x == CellOf(px)
           y == CellOf(py)
       IN  IF ~InBounds(x, y)
           THEN /\ selected' = SelectedAfterOutside(selected)
                /\ ret' = "None"
                /\ UNCHANGED <<grid, pc, depth, render>>
           ELSE IF selected = NoSelection
           THEN /\ selected' = <<x, y>>
                /\ ret' = "None"
                /\ UNCHANGED <<grid, pc, depth, render>>
           ELSE LET sel_x == selected[1]
                    sel_y == selected[2]
                IN  IF IsAdjacent(sel_x, sel_y, x, y)
                    THEN /\ swap_tiles("handle_click", sel_x, sel_y, x, y)
                         /\ selected' = IF ret' = "False"
                                        THEN SelectedAfterNoMatch(selected, <<x, y>>)
                                        ELSE selected
                    ELSE /\ selected' = SelectedAfterReselect(selected, <<x, y>>)
                         /\ ret' = "None"
                         /\ UNCHANGED <<grid, pc, depth, render>>
    /\ UNCHANGED <<EMOJIS, score, call, ai_version>>

Next ==
    \/ InitFill
    \/ InitWhile
    \/ InitGravity
    \/ clear_matches
    \/ clear_matches_gravity
    \/ \E px \in ClickXs, py \in ClickYs : handle_click(px, py)

Spec == Init /\ [][Next]_vars

\* The program runs: a step of construction or of the cascade that can be
\* taken is taken.  The refill is random: a round whose refill leaves no run
\* is taken in the end, if it is possible again and again.
\* Refills that leave no run on some board: what random.choice may draw for
\* the cells of rows 0 to 2, one row per tuple.
QuietRefills ==
    {<<<<1, 1, 2>>, <<2, 2, 1>>, <<2, 2, 1>>>>,
     <<<<2, 2, 1>>, <<1, 1, 2>>, <<1, 1, 2>>>>,
     <<<<1, 2, 1>>, <<2, 1, 1>>, <<2, 1, 1>>>>,
     <<<<2, 1, 1>>, <<1, 2, 1>>, <<1, 2, 1>>>>,
     <<<<1, 2, 2>>, <<2, 1, 1>>, <<2, 1, 1>>>>,
     <<<<2, 1, 2>>, <<1, 2, 1>>, <<1, 2, 1>>>>}

\* The step of clear_matches_gravity whose draws are one of QuietRefills and
\* leave no run, so that every activation returns.
LastRefill ==
    /\ pc = "apply_gravity"
    /\ pc' = Returned(op)
    /\ Cardinality(EMOJIS) = NumEmojis
    /\ \E q \in QuietRefills :
          /\ grid' = apply_gravity(grid, [c \in NewCells(grid) |-> q[c[2] + 1][c[1] + 1]])
          /\ ~Recurse(grid')
    /\ depth' = 0
    /\ selected' = IF op = "handle_click" THEN SelectedAfterMatch(selected, selected) ELSE selected
    /\ ret' = IF op = "__init__" THEN ret ELSE "True"
    /\ render' = Shown(render, RenderGravity(grid, render.tile))
    /\ UNCHANGED <<EMOJIS, score, op, due, call, held, ai_version>>

Fairness ==
    /\ WF_vars(InitFill)
    /\ WF_vars(InitWhile)
    /\ WF_vars(InitGravity)
    /\ WF_vars(clear_matches)
    /\ SF_vars(LastRefill)

FairSpec == Spec /\ Fairness

\* ---------------------------------------------- direct calls of a method

\* Every grid of tiles and empty cells, each tile at its own position.
FnInit ==
    /\ EMOJIS = 1 .. NumEmojis
    /\ grid \in {[y \in Rows |-> [x \in Cols |->
                    IF e[<<x, y>>] = 0 THEN None ELSE Tile(e[<<x, y>>], x, y)]] :
                 e \in [Coords -> 0 .. NumEmojis]}
    /\ selected = NoSelection
    /\ score = 0
    /\ pc = "call"
    /\ op = "call"
    /\ depth = 0
    /\ ret = "None"
    /\ due = 0
    /\ call = NoCall
    /\ held = FALSE
    /\ render = Untracked
    /\ ai_version = NotRunning

\* board.apply_gravity(), on the given grid or once more on its own result
CallApplyGravity ==
    /\ pc \in {"call", "called"}
    /\ pc = "called" => call.fn = "apply_gravity" /\ ~call.again
    /\ call' = [fn |-> "apply_gravity", arg |-> grid, at |-> <<>>, result |-> {},
                again |-> (pc = "called")]
    /\ grid' \in {apply_gravity(grid, rnd) : rnd \in [NewCells(grid) -> EMOJIS]}
    /\ pc' = "called"
    /\ render' = Shown(render, RenderGravity(grid, render.tile))
    /\ UNCHANGED <<EMOJIS, selected, score, op, depth, ret, due, held, ai_version>>

\* board.find_matches()
CallFindMatches ==
    /\ pc = "call"
    /\ call' = [fn |-> "find_matches", arg |-> grid, at |-> <<>>,
                result |-> find_matches(grid), again |-> FALSE]
    /\ pc' = "called"
    /\ UNCHANGED <<EMOJIS, grid, selected, score, op, depth, ret, due, held, render, ai_version>>

FnNext == CallApplyGravity \/ CallFindMatches

FnSpec == FnInit /\ [][FnNext]_vars

\* ------------------------------- direct calls on a board waiting for a click

\* Coordinates a caller may pass: the grid's and one step outside it.  The
\* second cell of a swap is the first or one of its neighbours.
ArgXs == -1 .. GRID_WIDTH

ArgYs == -1 .. GRID_HEIGHT

\* A board as construction leaves it: every cell filled, no run.
CallInit ==
    /\ EMOJIS = 1 .. NumEmojis
    /\ grid \in {g \in {Filled(rnd) : rnd \in [Coords -> EMOJIS]} : find_matches(g) = {}}
    /\ selected = NoSelection
    /\ score = 0
    /\ pc = "call"
    /\ op = "call"
    /\ depth = 0
    /\ ret = "None"
    /\ due = 0
    /\ call = NoCall
    /\ held = FALSE
    /\ render = Untracked
    /\ ai_version = NotRunning

\* board.swap_tiles(x1, y1, x2, y2)
CallSwapTiles(x1, y1, x2, y2) ==
    /\ pc = "call"
    /\ op' = "swap_tiles"
    /\ call' = [fn |-> "swap_tiles", arg |-> EmptyGrid, at |-> <<x1, y1, x2, y2>>,
                result |-> {}, again |-> FALSE]
    /\ swap_tiles("swap_tiles", x1, y1, x2, y2)
    /\ UNCHANGED <<EMOJIS, selected, score, due, held, ai_version>>

\* board.get_tile(x, y)
CallGetTile(x, y) ==
    /\ pc = "call"
    /\ call' = [fn |-> "get_tile", arg |-> EmptyGrid, at |-> <<x, y>>,
                result |-> get_tile(grid, x, y), again |-> FALSE]
    /\ pc' = "called"
    /\ UNCHANGED <<EMOJIS, grid, selected, score, op, depth, ret, due, held, render, ai_version>>

CallNext ==
    \/ \E x1 \in ArgXs, y1 \in ArgYs :
          \E b \in Neighbours(<<x1, y1>>) \cup {<<x1, y1>>} :
             CallSwapTiles(x1, y1, b[1], b[2])
    \/ \E x \in ArgXs, y \in ArgYs : CallGetTile(x, y)
    \/ clear_matches
    \/ clear_matches_gravity

CallSpec == CallInit /\ [][CallNext]_vars

\* ------------------------------------------- the frames of the main loop

\* A board as construction leaves it when the random fill has no run: every
\* tile just made, its presentation fields followed from here on.
RenderInit ==
    /\ EMOJIS = 1 .. NumEmojis
    /\ grid \in {g \in {Filled(rnd) : rnd \in [Coords -> EMOJIS]} : find_matches(g) = {}}
    /\ selected = NoSelection
    /\ score = 0
    /\ pc = "idle"
    /\ op = "__init__"
    /\ depth = 0
    /\ ret = "None"
    /\ due = 0
    /\ call = NoCall
    /\ held = FALSE
    /\ render = [tracked |-> TRUE, frame |-> 0, tile |-> RenderFilled]
    /\ ai_version = NotRunning

\* Board.update, lines 220-225, called once per frame by Game.run (lines
\* 317-321); frame is the parity of the frames so far.
update ==
    /\ pc = "idle"
    /\ render.tracked
    /\ render' = [render EXCEPT
                     !.frame = 1 - @,
                     !.tile = [c \in Coords |->
                                 IF grid[c[2]][c[1]] # None
                                 THEN TileUpdate(@[c], grid[c[2]][c[1]].y)
                                 ELSE @[c]]]
    /\ UNCHANGED <<EMOJIS, grid, selected, score, pc, op, depth, ret, due, call, held, ai_version>>

\* The player clicks until a swap has been committed, then watches.
ClickUntilSwap(px, py) == ret # "True" /\ handle_click(px, py)

RenderNext ==
    \/ \E px \in ClickXs, py \in ClickYs : ClickUntilSwap(px, py)
    \/ clear_matches
    \/ clear_matches_gravity
    \/ update

\* Game.run calls Board.update in every frame.
RenderSpec == RenderInit /\ [][RenderNext]_vars /\ WF_vars(update)

\* Every tile is drawn where it is and does not fall.
Settled ==
    \A c \in Coords :
        grid[c[2]][c[1]] # None =>
            /\ ~render.tile[c].falling
            /\ render.tile[c].render_x = grid[c[2]][c[1]].x
            /\ render.tile[c].render_y = grid[c[2]][c[1]].y

\* ------------------------------------- the two implementations side by side

\* The colours of src/ai_version.py that stand for the emojis of grid g.
BoardOf(g) == [y \in AiRange |-> [x \in AiRange |-> g[y][x].emoji - 1]]

\* Both programs hold the same board, on which nothing matches, and wait.
BothInit ==
    /\ EMOJIS = 1 .. NumEmojis
    /\ grid \in {g \in {Filled(rnd) : rnd \in [Coords -> EMOJIS]} : find_matches(g) = {}}
    /\ ai_version = [board |-> BoardOf(grid), selected |-> <<>>, score |-> 0]
    /\ selected = NoSelection
    /\ score = 0
    /\ pc = "call"
    /\ op = "call"
    /\ depth = 0
    /\ ret = "None"
    /\ due = 0
    /\ call = NoCall
    /\ held = FALSE
    /\ render = Untracked

\* The first click, on cell a: src/ai_version.py selects it.
BothSelect(mx, my) ==
    /\ pc = "call"
    /\ ai_version.selected = <<>>
    /\ MouseButtonDownEvent(mx, my)
    /\ UNCHANGED board_vars

\* The second click, on a cell b next to a whose exchange with a makes no
\* run: src/ai_version.py handles the event, Board runs swap_tiles(a, b).
BothSwap(mx, my) ==
    /\ pc = "call"
    /\ ai_version.selected # <<>>
    /\ LET a == <<ai_version.selected[2], ai_version.selected[1]>>
           b == <<AiCellOf(mx), AiCellOf(my)>>
       IN  /\ b \in Neighbours(a) \cap Coords
           /\ RunCells(Exchanged(grid, a, b)) = {}
           /\ op' = "swap_tiles"
           /\ call' = [fn |-> "swap_tiles", arg |-> EmptyGrid,
                       at |-> <<a[1], a[2], b[1], b[2]>>, result |-> {}, again |-> FALSE]
           /\ swap_tiles("swap_tiles", a[1], a[2], b[1], b[2])
    /\ MouseButtonDownEvent(mx, my)
    /\ UNCHANGED <<EMOJIS, selected, score, due, held>>

\* The frame of src/ai_version.py ends, lines 121-124.
BothFrame == pc = "called" /\ Frame

BothNext ==
    \/ \E mx \in AiClicks, my \in AiClicks : BothSelect(mx, my)
    \/ \E mx \in AiClicks, my \in AiClicks : BothSwap(mx, my)
    \/ BothFrame

BothSpec == BothInit /\ [][BothNext]_vars

\* ---------------------------------------------------------------- claims

\* C1 (quiescence): whenever the board waits for a click, i.e. after
\* construction and after every return of handle_click / swap_tiles,
\* find_matches() is empty, no cell lies in a run of three equal tiles, and
\* no cell is None.
C1_Quiescence ==
    pc = "idle" =>
        /\ find_matches(grid) = {}
        /\ RunCells(grid) = {}
        /\ NoEmptyCell(grid)

\* A committed swap has run its cascade and returned.
C1_Witness == pc = "idle" /\ ret = "True" /\ op = "handle_click"

\* C2 (swap reversibility): a handle_click whose swap_tiles returns False
\* leaves every cell holding the same tile with the same stored x, y, and
\* leaves the score as it was.
C2_SwapReversible ==
    [][(pc = "idle" /\ ret' = "False") => (grid' = grid /\ score' = score)]_vars

\* swap_tiles has returned False on a board with tiles.
C2_Witness == pc = "idle" /\ ret = "False" /\ NoEmptyCell(grid)

\* C3 (construction does not score), as claimed: when Board construction
\* finishes the score is 0.
C3_InitDoesNotScore == (pc = "idle" /\ op = "__init__") => score = 0

\* C4 (score monotonicity): no step decreases the score.
C4_ScoreMonotone == [][score' >= score]_vars

\* A cascade round of a click is about to add to a score that has risen.
C4_Witness == op = "handle_click" /\ pc = "clear_matches" /\ score > 0

C6_GravityConserves ==
    call.fn = "apply_gravity" =>
        \A x \in Cols :
            LET old == ColumnTopDown(call.arg, x)
                top == GRID_HEIGHT - Len(old)
            IN  /\ \A i \in 1 .. Len(old) :
                        grid[top + i - 1][x] = [old[i] EXCEPT !.y = top + i - 1]
                /\ \A y \in 0 .. (top - 1) :
                        /\ grid[y][x].emoji \in EMOJIS
                        /\ grid[y][x].x = x
                        /\ grid[y][x].y = y

\* Gravity has moved two different tiles of column 0 down past a hole.
C6_Witness ==
    /\ call.fn = "apply_gravity"
    /\ call.arg[0][0].emoji = 1
    /\ call.arg[1][0].emoji = 2
    /\ call.arg[GRID_HEIGHT - 1][0] = None
    /\ grid[GRID_HEIGHT - 1][0].emoji = 2

\* C7 (match detection): find_matches returns exactly the cells that lie in
\* a horizontal or vertical triple of present, equal tiles.
C7_MatchDetection ==
    call.fn = "find_matches" => call.result = RunCells(call.arg)

\* A scan has found the run of row 0 and nothing in row 1, whose two equal
\* tiles have an empty cell between them.
C7_Witness ==
    /\ call.fn = "find_matches"
    /\ call.result = {<<x, 0>> : x \in 0 .. 2}
    /\ call.arg[1][0].emoji = 1
    /\ call.arg[1][1] = None
    /\ call.arg[1][2].emoji = 1

\* C8 (bounded cascade), as claimed: with a palette of one emoji, where no
\* refill is without a run, the recursion of clear_matches ends in a reported
\* failure before it is MaxDepth activations deep.
C8_BoundedCascade == Cardinality(EMOJIS) = 1 => depth < MaxDepth

\* C9 (cascade termination): with two or more emojis and a fair random
\* refill, every cascade, of a swap or of construction, leads to a board
\* without a run, where the program waits for a click.
C9_CascadeTerminates ==
    (pc = "clear_matches" /\ Cardinality(EMOJIS) >= 2) ~> (pc = "idle")

\* A swap has found a match and its cascade is in its second activation.
C9_Witness ==
    /\ pc = "clear_matches"
    /\ op = "handle_click"
    /\ depth = 2
    /\ Cardinality(EMOJIS) >= 2

\* C10 (adjacent second click): a click on an in-bounds cell C that is
\* 4-adjacent to the held selection S either exchanges S and C into a grid
\* with a run, which is committed and starts the cascade, and the selection
\* is None when the call returns; or the exchange makes no run, and the call
\* returns at once with the grid as before and the selection equal to C.
C10_AdjacentSecondClick ==
    [][/\ \A px \in ClickXs, py \in ClickYs :
            LET C == <<CellOf(px), CellOf(py)>>
            IN  (/\ pc = "idle"
                 /\ selected # NoSelection
                 /\ InBounds(C[1], C[2])
                 /\ IsAdjacent(selected[1], selected[2], C[1], C[2])
                 /\ handle_click(px, py))
                => IF RunCells(Exchanged(grid, selected, C)) # {}
                   THEN /\ pc' = "clear_matches"
                        /\ RunCells(grid') # {}
                   ELSE /\ pc' = "idle"
                        /\ selected' = C
                        /\ selected' # NoSelection
                        /\ grid' = grid
       /\ (pc = "apply_gravity" /\ pc' = "idle") => selected' = NoSelection
      ]_vars

\* An adjacent second click has been reverted after the score had risen.
C10_Witness ==
    pc = "idle" /\ ret = "False" /\ selected # NoSelection /\ score > 0

\* C11 (reselection): a click on an in-bounds cell C while a selection S is
\* held, with C = S or C not 4-adjacent to S, makes C the selection and
\* leaves the grid and the score as they were; swap_tiles is not called.
C11_Reselection ==
    [][\A px \in ClickXs, py \in ClickYs :
            LET C == <<CellOf(px), CellOf(py)>>
            IN  (/\ pc = "idle"
                 /\ selected # NoSelection
                 /\ C \in Coords
                 /\ C \notin Neighbours(selected)
                 /\ handle_click(px, py))
                => /\ selected' = C
                   /\ grid' = grid
                   /\ score' = score
                   /\ ret' = "None"
                   /\ pc' = "idle"
      ]_vars

\* A click with a selection held has returned with a selection and without
\* a call of swap_tiles.
C11_Witness ==
    /\ pc = "idle"
    /\ op = "handle_click"
    /\ held
    /\ ret = "None"
    /\ selected # NoSelection

\* C12 (out-of-bounds click): a click whose cell lies outside the grid sets
\* the selection to None, whether or not one was held, and leaves the grid
\* and the score as they were.
C12_OutOfBoundsClick ==
    [][\A px \in ClickXs, py \in ClickYs :
            (/\ pc = "idle"
             /\ <<CellOf(px), CellOf(py)>> \notin Coords
             /\ handle_click(px, py))
            => /\ selected' = NoSelection
               /\ grid' = grid
               /\ score' = score
               /\ pc' = "idle"
      ]_vars

\* A click outside the grid has dropped a held selection.
C12_Witness ==
    /\ pc = "idle"
    /\ op = "handle_click"
    /\ held
    /\ ret = "None"
    /\ selected = NoSelection

\* C13 (out-of-bounds swap): swap_tiles with either coordinate outside the
\* grid returns False and changes nothing; get_tile returns None exactly for
\* coordinates outside the grid and the stored content of the cell for
\* coordinates inside it.
C13_OutOfBoundsSwap ==
    [][/\ (/\ pc = "call"
            /\ call'.fn = "swap_tiles"
            /\ \/ <<call'.at[1], call'.at[2]>> \notin Coords
               \/ <<call'.at[3], call'.at[4]>> \notin Coords)
           => /\ ret' = "False"
              /\ pc' = "called"
              /\ grid' = grid
              /\ score' = score
              /\ selected' = selected
       /\ (pc = "call" /\ call'.fn = "get_tile")
           => /\ (call'.result = None) <=> (<<call'.at[1], call'.at[2]>> \notin Coords)
              /\ <<call'.at[1], call'.at[2]>> \in Coords
                    => call'.result = grid[call'.at[2]][call'.at[1]]
              /\ grid' = grid
      ]_vars

\* swap_tiles has returned False for a cell of the grid and the cell left
\* of the grid.
C13_Witness ==
    /\ pc = "called"
    /\ call.fn = "swap_tiles"
    /\ call.at = <<0, 0, -1, 0>>
    /\ ret = "False"

\* C14 (gravity on a full grid): apply_gravity called on a grid without an
\* empty cell leaves every cell holding the same tile with the same
\* coordinates and creates no tile; so does a second call on its result.
C14_GravityFullGrid ==
    (call.fn = "apply_gravity" /\ NoEmptyCell(call.arg)) => grid = call.arg

\* apply_gravity has been called a second time, on the grid it had filled.
C14_Witness ==
    /\ call.fn = "apply_gravity"
    /\ call.again
    /\ NoEmptyCell(call.arg)
    /\ grid[0][0].emoji = 2
    /\ grid[1][0].emoji = 1

\* C18 (tile coordinates): after construction and after every step of
\* swap_tiles, apply_gravity, clear_matches and handle_click, every
\* non-empty cell grid[y][x] holds a tile whose stored x, y are x, y.
C18_TileCoordinates ==
    \A c \in Coords :
        grid[c[2]][c[1]] # None =>
            grid[c[2]][c[1]].x = c[1] /\ grid[c[2]][c[1]].y = c[2]

\* A swap has been reverted on a board that cascades have refilled.
C18_Witness ==
    /\ pc = "idle"
    /\ ret = "False"
    /\ held
    /\ score >= 3 * POINTS
    /\ NoEmptyCell(grid)

\* C20 (a committed swap involves a swapped cell): when swap_tiles(a, b)
\* has found a match and is about to clear the first round, one of the
\* cells a, b lies in a run, and the two tiles exchanged differ.
C20_CommittedSwap ==
    (call.fn = "swap_tiles" /\ pc = "clear_matches" /\ depth = 1) =>
        LET a == <<call.at[1], call.at[2]>>
            b == <<call.at[3], call.at[4]>>
        IN  /\ RunCells(grid) \cap {a, b} # {}
            /\ grid[a[2]][a[1]].emoji # grid[b[2]][b[1]].emoji

\* A direct call of swap_tiles has returned True after its cascade.
C20_Witness ==
    /\ call.fn = "swap_tiles"
    /\ pc = "called"
    /\ ret = "True"
    /\ score >= 3 * POINTS

\* C19 (presentation position converges), as claimed: once the clicks have
\* ended with a committed swap and Board.update() is called frame after
\* frame, every tile eventually has falling = False, render_x = x and
\* render_y = y, the tiles moved by the swap included.
C19_RenderConverges == (pc = "idle" /\ ret = "True") ~> Settled

\* C15 (atomic turns in src/ai_version.py), as claimed: the main loop
\* handles no MOUSEBUTTONDOWN that exchanges two cells while
\* find_matches(board) is non-empty.  Stated for the clicks that follow a
\* removal, when the loop has scanned the board at least once.
C15_AtomicTurns ==
    [][\A mx \in AiClicks, my \in AiClicks :
            (/\ MOUSEBUTTONDOWN(mx, my)
             /\ ai_version.score > 0
             /\ ai_version.selected # <<>>
             /\ <<AiCellOf(my), AiCellOf(mx)>> \in AiCells)
            => ai_find_matches(ai_version.board) = {}
      ]_vars

\* C16 (adjacency-constrained swap in src/ai_version.py), as claimed: with
\* a selection S held, a click on an in-bounds cell C exchanges S and C
\* only when C is 4-adjacent to S; otherwise the board stays as it is and C
\* becomes the selection.
C16_AdjacentSwapOnly ==
    [][\A mx \in AiClicks, my \in AiClicks :
            LET S == ai_version.selected
                C == <<AiCellOf(my), AiCellOf(mx)>>
            IN  (/\ MOUSEBUTTONDOWN(mx, my)
                 /\ S # <<>>
                 /\ C \in AiCells
                 /\ C \notin Neighbours(S))
                => /\ ai_version'.board = ai_version.board
                   /\ ai_version'.selected = C
      ]_vars

\* C17 (the implementations differ on a swap without a match): from the
\* same board without a run and for the same adjacent cells a, b whose
\* exchange makes no run, Board.swap_tiles returns False with the grid as
\* it was, and src/ai_version.py is left with the contents of a and b
\* exchanged, no selection, and nothing for its frame to remove.
C17_SwapWithoutMatch ==
    [][(/\ pc = "call"
        /\ call'.fn = "swap_tiles"
        /\ ai_version.selected # <<>>
        /\ ai_version.board = BoardOf(grid))
       => LET a == <<call'.at[1], call'.at[2]>>
              b == <<call'.at[3], call'.at[4]>>
          IN  /\ ret' = "False"
              /\ pc' = "called"
              /\ grid' = grid
              /\ ai_version'.board = BoardOf(Exchanged(grid, a, b))
              /\ ai_version'.selected = <<>>
              /\ ai_find_matches(ai_version'.board) = {}
      ]_vars

\* Both have handled the swap of two different tiles: the boards differ.
C17_Witness ==
    /\ pc = "called"
    /\ call.fn = "swap_tiles"
    /\ ret = "False"
    /\ ai_version.selected = <<>>
    /\ ai_version.board # BoardOf(grid)

====
